---- MODULE Spec2Model ----
(***************************************************************************)
(* Football browser (Ejercicio): ApiService, TeamManager, PlayerManager,   *)
(* UIManager and the FootballApp coordinator, as one state machine.        *)
(*                                                                         *)
(* Strings that the code inspects (the search text and the team fields it  *)
(* is matched against) are sequences of one-character strings, so that     *)
(* toLowerCase, trim and includes are computed.  Strings the code only     *)
(* copies (country names, ids, badge URLs, player names) are opaque.       *)
(* Of the DOM, the model keeps what the handlers branch on or what decides *)
(* what is on screen: the select, the rendered team cards and their mode,  *)
(* the counters, the title, the view buttons, the loading overlay and the  *)
(* display of the three roster elements.  The text and images written into *)
(* the roster header and the player cards are not kept.                    *)
(* An async handler is two steps: the synchronous part up to the await,    *)
(* which puts a request in flight, and the continuation that runs when     *)
(* the request resolves or rejects.                                        *)
(***************************************************************************)
EXTENDS Integers, Sequences, FiniteSets, TLC

(* ----------------------------- bounds --------------------------------- *)

\* requests (teams-by-country and players-by-team) in flight at once
MaxPending == 2

\* length of the text typed in the search box
MaxInputLen == 2

\* length of the team lists the filter is tried on, one by one
MaxListLen == 2

(* ------------------------- values and strings -------------------------- *)

\* JSON null in a string field of an API record
NullStr == <<"null">>

\* PlayerManager.currentTeam before any roster is loaded
NullTeam == [isNull |-> TRUE]

\* a value an `x && ...` or `x || ...` test lets through
Truthy(s) == s # NullStr /\ s # <<>>

Lower(c) ==
    CASE c = "A" -> "a"
      [] c = "B" -> "b"
      [] c = "C" -> "c"
      [] OTHER -> c

ToLowerCase(s) == [i \in 1..Len(s) |-> Lower(s[i])]

RECURSIVE TrimStart(_)
TrimStart(s) ==
    IF s # <<>> /\ Head(s) = " " THEN TrimStart(Tail(s)) ELSE s

RECURSIVE TrimEnd(_)
TrimEnd(s) ==
    IF s # <<>> /\ s[Len(s)] = " "
    THEN TrimEnd(SubSeq(s, 1, Len(s) - 1))
    ELSE s

Trim(s) == TrimEnd(TrimStart(s))

\* String.prototype.includes
Includes(s, sub) ==
    \E i \in 0..(Len(s) - Len(sub)) : SubSeq(s, i + 1, i + Len(sub)) = sub

\* characters of the text typed in the search box
InputChars == {"B", " "}

RECURSIVE SeqsUpTo(_, _)
SeqsUpTo(S, n) ==
    IF n = 0 THEN {<<>>}
    ELSE LET shorter == SeqsUpTo(S, n - 1)
         IN  shorter \cup {Append(s, c) : s \in shorter, c \in S}

SearchInputs == SeqsUpTo(InputChars, MaxInputLen)

(* --------------------------- remote data ------------------------------- *)

Betis ==
    [idTeam |-> "133", strTeam |-> <<"B", "a">>, strTeamBadge |-> "badge133",
     strLeague |-> <<"c">>, strStadium |-> <<"c", "c">>,
     strStadiumLocation |-> <<"a", "b">>]

Sevilla ==
    [idTeam |-> "134", strTeam |-> <<"c", "A">>, strTeamBadge |-> "badge134",
     strLeague |-> NullStr, strStadium |-> <<"b", "B">>,
     strStadiumLocation |-> NullStr]

Roma ==
    [idTeam |-> "135", strTeam |-> <<"a", "B">>, strTeamBadge |-> "badge135",
     strLeague |-> <<"B", "b">>, strStadium |-> NullStr,
     strStadiumLocation |-> NullStr]

\* JSON null where the body has no list
NullList == <<[isNull |-> TRUE]>>

\* body of all_countries.php, in the order the API sends it
CountriesBody == [countries |-> <<"Spain", "Italy">>]

\* body of search_all_teams.php?s=Soccer&c=<country>
TeamsBody(country) ==
    CASE country = "Spain" -> [teams |-> <<Betis, Sevilla>>]
      [] country = "Italy" -> [teams |-> <<Roma>>]
      [] OTHER -> [teams |-> NullList]

\* body of lookup_all_players.php?id=<teamId>
PlayersBody(teamId) ==
    CASE teamId = "133" -> [player |-> <<[strPlayer |-> "player1"], [strPlayer |-> "player2"]>>]
      [] teamId = "135" -> [player |-> <<[strPlayer |-> "player3"]>>]
      [] OTHER -> [player |-> NullList]

(* ----------------------------- ApiService ------------------------------ *)

\* what getCountries resolves to: data.countries || []
getCountries ==
    LET data == CountriesBody
    IN  IF data.countries # NullList THEN data.countries ELSE <<>>

\* what getTeamsByCountry resolves to: data.teams || []
getTeamsByCountry(country) ==
    LET data == TeamsBody(country)
    IN  IF data.teams # NullList THEN data.teams ELSE <<>>

\* what getPlayersByTeam resolves to: data.player || []
getPlayersByTeam(teamId) ==
    LET data == PlayersBody(teamId)
    IN  IF data.player # NullList THEN data.player ELSE <<>>

(* ------------------------------ sorting -------------------------------- *)

\* a.name_en.localeCompare(b.name_en) < 0
NameBefore(a, b) ==
    LET rank(c) == CASE c = "Italy" -> 1 [] c = "Spain" -> 2 [] OTHER -> 3
    IN  rank(a) < rank(b)

RECURSIVE SortCountries(_)
SortCountries(s) ==
    IF s = <<>> THEN <<>>
    ELSE LET m == CHOOSE i \in DOMAIN s :
                      \A j \in DOMAIN s : ~NameBefore(s[j], s[i])
             rest == [k \in 1..(Len(s) - 1) |-> IF k < m THEN s[k] ELSE s[k + 1]]
         IN  <<s[m]>> \o SortCountries(rest)

(* ------------------------------ state ---------------------------------- *)

VARIABLES
    \* TeamManager
    teams, filteredTeams, currentCountry, currentView, searchTerm,
    \* PlayerManager
    currentPlayers, currentTeam,
    \* UIManager.elements
    countryOptions,     \* options of countrySelect after the placeholder
    countryValue,       \* countrySelect.value
    loadTeamsBtnDisabled,
    teamsContainer,     \* cards rendered and the mode they are rendered in
    teamsCount, totalTeams, countryTitle,
    viewButtons,        \* 'active' class of gridViewBtn and listViewBtn
    \* style.display of teamInfo, playersSection and emptyPlayers is not 'none'
    teamInfo, playersSection, emptyPlayers,
    loadingOverlay,
    \* requests in flight, in the order they were issued
    pendingCountries, pendingTeams, pendingPlayers,
    \* what the handler that ran last was, and the toasts it issued
    lastOp, notified

tmVars == <<teams, filteredTeams, currentCountry, currentView, searchTerm>>
pmVars == <<currentPlayers, currentTeam>>
selectVars == <<countryOptions, countryValue, loadTeamsBtnDisabled>>
teamsUi == <<teamsContainer, teamsCount, totalTeams, countryTitle, viewButtons>>
playersUi == <<teamInfo, playersSection, emptyPlayers>>
pendingVars == <<pendingCountries, pendingTeams, pendingPlayers>>

vars == <<tmVars, pmVars, selectVars, teamsUi, playersUi, loadingOverlay,
          pendingVars, lastOp, notified>>

Op(name, arg) == [op |-> name, arg |-> arg]

\* everything but the record of the handler that ran last
progVars == <<tmVars, pmVars, selectVars, teamsUi, playersUi, loadingOverlay,
              pendingVars>>

\* marks a handler that runs right after a run of the same handler
Again(name) == IF lastOp.op = name THEN "again" ELSE ""

\* constructors of TeamManager, PlayerManager and UIManager, then
\* FootballApp.init up to the await in loadInitialData
Init ==
    /\ teams = <<>>
    /\ filteredTeams = <<>>
    /\ currentCountry = ""
    /\ currentView = "grid"
    /\ searchTerm = <<>>
    /\ currentPlayers = <<>>
    /\ currentTeam = NullTeam
    /\ countryOptions = <<>>
    /\ countryValue = ""
    /\ loadTeamsBtnDisabled = TRUE
    /\ teamsContainer = [cards |-> <<>>, viewType |-> "none"]
    /\ teamsCount = 0
    /\ totalTeams = 0
    /\ countryTitle = ""
    /\ viewButtons = [grid |-> TRUE, list |-> FALSE]
    /\ teamInfo = FALSE
    /\ playersSection = FALSE
    /\ emptyPlayers = FALSE
    /\ loadingOverlay = TRUE
    /\ pendingCountries = TRUE
    /\ pendingTeams = <<>>
    /\ pendingPlayers = <<>>
    /\ lastOp = Op("init", "")
    /\ notified = <<>>

(* ------------------------------ UIManager ------------------------------ *)

\* what displayTeams leaves in teamsContainer; createTeamCard renders
\* every mode other than 'grid' as a list row
RenderedTeams(ts, viewType) ==
    IF ts = <<>>
    THEN [cards |-> <<>>, viewType |-> "none"]
    ELSE [cards |-> ts, viewType |-> IF viewType = "grid" THEN "grid" ELSE "list"]

displayTeams(ts, viewType) == teamsContainer' = RenderedTeams(ts, viewType)

\* totalTeams = null of updateCounters
NoTotal == -1

updateCounters(count, total) ==
    /\ teamsCount' = count
    /\ totalTeams' = IF total # NoTotal THEN total ELSE totalTeams

updateCountryTitle(country) == countryTitle' = country

showLoading(show) == loadingOverlay' = show

showNotification(type) == notified' = <<type>>

hidePlayersSection ==
    /\ playersSection' = FALSE
    /\ teamInfo' = FALSE
    /\ emptyPlayers' = FALSE

setViewButtons(activeView) ==
    viewButtons' = [grid |-> activeView = "grid", list |-> activeView = "list"]

\* displayPlayers without the empty-roster branch
displayPlayersNoEmptyState(players, teamName, teamBadge, teamLeague, country) ==
    /\ teamInfo' = TRUE
    /\ emptyPlayers' = FALSE
    /\ playersSection' = TRUE

displayPlayers(players, teamName, teamBadge, teamLeague, country) ==
    /\ teamInfo' = TRUE
    /\ IF players = <<>>
       THEN /\ emptyPlayers' = TRUE
            /\ UNCHANGED playersSection
       ELSE /\ emptyPlayers' = FALSE
            /\ playersSection' = TRUE

enableLoadButton(enable) == loadTeamsBtnDisabled' = ~enable

populateCountrySelect(countries) ==
    /\ countryOptions' = SortCountries(countries)
    /\ countryValue' = ""

(* ----------------------------- TeamManager ----------------------------- *)

RemoveAt(s, i) == [k \in 1..(Len(s) - 1) |-> IF k < i THEN s[k] ELSE s[k + 1]]

\* the predicate of this.teams.filter in filterTeams
TeamMatches(team, term) ==
    \/ Includes(ToLowerCase(team.strTeam), term)
    \/ (Truthy(team.strLeague) /\ Includes(ToLowerCase(team.strLeague), term))
    \/ (Truthy(team.strStadium) /\ Includes(ToLowerCase(team.strStadium), term))

\* the value filterTeams assigns to filteredTeams
FilteredBy(ts, term) ==
    IF term = <<>> THEN ts
    ELSE SelectSeq(ts, LAMBDA team : TeamMatches(team, term))

\* loadTeams up to the await
loadTeams(country) ==
    IF country = ""
    THEN /\ lastOp' = Op("loadTeamsNoCountry", country)
         /\ notified' = <<>>
         /\ UNCHANGED <<tmVars, pmVars, selectVars, teamsUi, playersUi,
                        loadingOverlay, pendingVars>>
    ELSE /\ currentCountry' = country
         /\ showLoading(TRUE)
         /\ updateCountryTitle(country)
         /\ pendingTeams' = Append(pendingTeams, country)
         /\ lastOp' = Op("loadTeams", country)
         /\ notified' = <<>>
         /\ UNCHANGED <<teams, filteredTeams, currentView, searchTerm, pmVars,
                        selectVars, teamsContainer, teamsCount, totalTeams,
                        viewButtons, playersUi, pendingCountries, pendingPlayers>>

\* loadTeams dropping a response that is not for the country asked for last
loadTeamsResolvedFenced(i) ==
    LET country == pendingTeams[i]
        response == getTeamsByCountry(country)
        fresh == country = currentCountry
    IN  /\ teams' = IF fresh THEN response ELSE teams
        /\ filteredTeams' = IF fresh THEN response ELSE filteredTeams
        /\ searchTerm' = IF fresh THEN <<>> ELSE searchTerm
        /\ IF fresh
           THEN /\ displayTeams(response, currentView)
                /\ updateCounters(Len(response), Len(response))
                /\ hidePlayersSection
           ELSE UNCHANGED <<teamsContainer, teamsCount, totalTeams, playersUi>>
        /\ showNotification("success")
        /\ showLoading(FALSE)
        /\ pendingTeams' = RemoveAt(pendingTeams, i)
        /\ lastOp' = Op("loadTeamsResolved", country)
        /\ UNCHANGED <<currentCountry, currentView, pmVars, selectVars,
                       countryTitle, viewButtons, pendingCountries,
                       pendingPlayers>>

\* loadTeams after the await, getTeamsByCountry resolved
loadTeamsResolved(i) ==
    LET country == pendingTeams[i]
        response == getTeamsByCountry(country)
    IN  /\ teams' = response
        /\ filteredTeams' = response
        /\ searchTerm' = <<>>
        /\ displayTeams(response, currentView)
        /\ updateCounters(Len(response), Len(response))
        /\ showNotification("success")
        /\ hidePlayersSection
        /\ showLoading(FALSE)
        /\ pendingTeams' = RemoveAt(pendingTeams, i)
        /\ lastOp' = Op("loadTeamsResolved", country)
        /\ UNCHANGED <<currentCountry, currentView, pmVars, selectVars,
                       countryTitle, viewButtons, pendingCountries,
                       pendingPlayers>>

\* loadTeams after the await, getTeamsByCountry rejected (fetch failed,
\* response.ok false, or the body is not JSON)
loadTeamsRejected(i) ==
    /\ showNotification("error")
    /\ displayTeams(<<>>, currentView)
    /\ showLoading(FALSE)
    /\ pendingTeams' = RemoveAt(pendingTeams, i)
    /\ lastOp' = Op("loadTeamsRejected", pendingTeams[i])
    /\ UNCHANGED <<tmVars, pmVars, selectVars, teamsCount, totalTeams,
                   countryTitle, viewButtons, playersUi, pendingCountries,
                   pendingPlayers>>

\* filterTeams narrowing this.teams itself instead of a copy
filterTeamsInPlace(input) ==
    LET term == Trim(ToLowerCase(input))
        filtered == FilteredBy(teams, term)
    IN  /\ searchTerm' = term
        /\ teams' = filtered
        /\ filteredTeams' = filtered
        /\ displayTeams(filtered, currentView)
        /\ updateCounters(Len(filtered), NoTotal)
        /\ lastOp' = Op("filterTeams",
                IF searchTerm = term THEN Again("filterTeams") ELSE "")
        /\ notified' = <<>>
        /\ UNCHANGED <<currentCountry, currentView, pmVars, selectVars,
                       countryTitle, viewButtons, playersUi, loadingOverlay,
                       pendingVars>>

filterTeams(input) ==
    LET term == Trim(ToLowerCase(input))
        filtered == FilteredBy(teams, term)
    IN  /\ searchTerm' = term
        /\ filteredTeams' = filtered
        /\ displayTeams(filtered, currentView)
        /\ updateCounters(Len(filtered), NoTotal)
        /\ lastOp' = Op("filterTeams",
                IF searchTerm = term THEN Again("filterTeams") ELSE "")
        /\ notified' = <<>>
        /\ UNCHANGED <<teams, currentCountry, currentView, pmVars, selectVars,
                       countryTitle, viewButtons, playersUi, loadingOverlay,
                       pendingVars>>

switchView(viewType) ==
    /\ currentView' = viewType
    /\ IF Len(filteredTeams) > 0
       THEN /\ displayTeams(filteredTeams, viewType)
            /\ setViewButtons(viewType)
       ELSE UNCHANGED <<teamsContainer, viewButtons>>
    /\ lastOp' = Op("switchView", viewType)
    /\ notified' = <<>>
    /\ UNCHANGED <<teams, filteredTeams, currentCountry, searchTerm, pmVars,
                   selectVars, teamsCount, totalTeams, countryTitle, playersUi,
                   loadingOverlay, pendingVars>>

clearTeams ==
    /\ teams' = <<>>
    /\ filteredTeams' = <<>>
    /\ currentCountry' = ""
    /\ searchTerm' = <<>>
    /\ displayTeams(<<>>, currentView)
    /\ updateCounters(0, NoTotal)
    /\ updateCountryTitle("")
    /\ lastOp' = Op("clearTeams", "")
    /\ notified' = <<>>
    /\ UNCHANGED <<currentView, pmVars, selectVars, viewButtons, playersUi,
                   loadingOverlay, pendingVars>>

(* ---------------------------- PlayerManager ---------------------------- *)

\* loadPlayers up to the await
loadPlayers(teamId, teamName, teamBadge, teamLeague) ==
    IF teamId = ""
    THEN /\ lastOp' = Op("loadPlayersNoTeam", teamId)
         /\ notified' = <<>>
         /\ UNCHANGED <<tmVars, pmVars, selectVars, teamsUi, playersUi,
                        loadingOverlay, pendingVars>>
    ELSE /\ showLoading(TRUE)
         /\ pendingPlayers' = Append(pendingPlayers,
                [teamId |-> teamId, teamName |-> teamName,
                 teamBadge |-> teamBadge, teamLeague |-> teamLeague])
         /\ lastOp' = Op("loadPlayers", teamId)
         /\ notified' = <<>>
         /\ UNCHANGED <<tmVars, pmVars, selectVars, teamsUi, playersUi,
                        pendingCountries, pendingTeams>>

\* loadPlayers after the await, getPlayersByTeam resolved
loadPlayersResolved(i) ==
    LET call == pendingPlayers[i]
        players == getPlayersByTeam(call.teamId)
    IN  /\ currentPlayers' = players
        /\ currentTeam' = [name |-> call.teamName, badge |-> call.teamBadge,
                           league |-> call.teamLeague]
        /\ displayPlayers(players, call.teamName, call.teamBadge,
                          call.teamLeague, countryValue)
        /\ showNotification("success")
        /\ showLoading(FALSE)
        /\ pendingPlayers' = RemoveAt(pendingPlayers, i)
        /\ lastOp' = Op("loadPlayersResolved", call.teamId)
        /\ UNCHANGED <<tmVars, selectVars, teamsUi, pendingCountries,
                       pendingTeams>>

\* loadPlayers after the await, getPlayersByTeam rejected
loadPlayersRejected(i) ==
    LET call == pendingPlayers[i]
    IN  /\ showNotification("error")
        /\ displayPlayers(<<>>, call.teamName, call.teamBadge,
                          call.teamLeague, "undefined")
        /\ showLoading(FALSE)
        /\ pendingPlayers' = RemoveAt(pendingPlayers, i)
        /\ lastOp' = Op("loadPlayersRejected", call.teamId)
        /\ UNCHANGED <<tmVars, pmVars, selectVars, teamsUi, pendingCountries,
                       pendingTeams>>

\* hidePlayers forgetting the roster
hidePlayersKeepsRoster ==
    /\ currentTeam' = NullTeam
    /\ hidePlayersSection
    /\ lastOp' = Op("hidePlayers", Again("hidePlayers"))
    /\ notified' = <<>>
    /\ UNCHANGED <<currentPlayers, tmVars, selectVars, teamsUi, loadingOverlay,
                   pendingVars>>

\* hidePlayers returning early when the players section is not on screen
hidePlayersOnlyWhenOpen ==
    /\ IF playersSection
       THEN /\ currentPlayers' = <<>>
            /\ currentTeam' = NullTeam
            /\ hidePlayersSection
       ELSE UNCHANGED <<pmVars, playersUi>>
    /\ lastOp' = Op("hidePlayers", Again("hidePlayers"))
    /\ notified' = <<>>
    /\ UNCHANGED <<tmVars, selectVars, teamsUi, loadingOverlay, pendingVars>>

hidePlayers ==
    /\ currentPlayers' = <<>>
    /\ currentTeam' = NullTeam
    /\ hidePlayersSection
    /\ lastOp' = Op("hidePlayers", Again("hidePlayers"))
    /\ notified' = <<>>
    /\ UNCHANGED <<tmVars, selectVars, teamsUi, loadingOverlay, pendingVars>>

(* ----------------------------- FootballApp ----------------------------- *)

\* loadInitialData after the await, getCountries resolved
loadInitialDataResolved ==
    /\ pendingCountries
    /\ populateCountrySelect(getCountries)
    /\ showNotification("success")
    /\ showLoading(FALSE)
    /\ pendingCountries' = FALSE
    /\ lastOp' = Op("loadInitialDataResolved", "")
    /\ UNCHANGED <<tmVars, pmVars, loadTeamsBtnDisabled, teamsUi, playersUi,
                   pendingTeams, pendingPlayers>>

\* loadInitialData after the await, getCountries rejected
loadInitialDataRejected ==
    /\ pendingCountries
    /\ showNotification("error")
    /\ showLoading(FALSE)
    /\ pendingCountries' = FALSE
    /\ lastOp' = Op("loadInitialDataRejected", "")
    /\ UNCHANGED <<tmVars, pmVars, selectVars, teamsUi, playersUi,
                   pendingTeams, pendingPlayers>>

\* 'change' of countrySelect: the user picks one of the options
countrySelectChange ==
    \E k \in DOMAIN countryOptions :
        /\ countryOptions[k] # countryValue
        /\ countryValue' = countryOptions[k]
        /\ enableLoadButton(countryOptions[k] # "")
        /\ lastOp' = Op("countrySelectChange", countryOptions[k])
        /\ notified' = <<>>
        /\ UNCHANGED <<tmVars, pmVars, countryOptions, teamsUi, playersUi,
                       loadingOverlay, pendingVars>>

CanIssue == Len(pendingTeams) + Len(pendingPlayers) < MaxPending

\* the handler found no country selected and returned
NoCountrySelected(button) ==
    /\ lastOp' = Op(button, "")
    /\ notified' = <<>>
    /\ UNCHANGED <<tmVars, pmVars, selectVars, teamsUi, playersUi,
                   loadingOverlay, pendingVars>>

\* 'click' of loadTeamsBtn
loadTeamsBtnClick ==
    /\ ~loadTeamsBtnDisabled
    /\ CanIssue
    /\ IF countryValue # ""
       THEN loadTeams(countryValue)
       ELSE NoCountrySelected("loadTeamsBtnClick")

\* 'click' of refreshTeamsBtn
refreshTeamsBtnClick ==
    /\ CanIssue
    /\ IF countryValue # ""
       THEN loadTeams(countryValue)
       ELSE NoCountrySelected("refreshTeamsBtnClick")

\* 'input' of teamSearch
teamSearchInput == \E input \in SearchInputs : filterTeams(input)

\* 'click' of gridViewBtn
gridViewBtnClick == switchView("grid")

\* 'click' of listViewBtn
listViewBtnClick == switchView("list")

\* 'click' of closePlayersBtn
closePlayersBtnClick == hidePlayers

\* delegated 'click' on the view-players button of a rendered team card
teamCardClick ==
    /\ CanIssue
    /\ \E k \in DOMAIN teamsContainer.cards :
          LET team == teamsContainer.cards[k]
              league == IF Truthy(team.strLeague) THEN team.strLeague ELSE <<>>
          IN  /\ team.idTeam # ""
              /\ loadPlayers(team.idTeam, team.strTeam, team.strTeamBadge, league)

\* a teams-by-country request in flight resolves
teamsRequestResolves == \E i \in DOMAIN pendingTeams : loadTeamsResolved(i)

\* a teams-by-country request in flight rejects
teamsRequestRejects == \E i \in DOMAIN pendingTeams : loadTeamsRejected(i)

\* a players-by-team request in flight resolves
playersRequestResolves == \E i \in DOMAIN pendingPlayers : loadPlayersResolved(i)

\* a players-by-team request in flight rejects
playersRequestRejects == \E i \in DOMAIN pendingPlayers : loadPlayersRejected(i)

\* loading countries and teams: what both the team list and the roster need
NextLoading ==
    \/ loadInitialDataResolved
    \/ loadInitialDataRejected
    \/ countrySelectChange
    \/ loadTeamsBtnClick
    \/ refreshTeamsBtnClick
    \/ teamsRequestResolves
    \/ teamsRequestRejects

\* searching, switching the view and clearing the team list
NextTeamList ==
    \/ teamSearchInput
    \/ gridViewBtnClick
    \/ listViewBtnClick
    \/ clearTeams

\* opening and closing a roster
NextRoster ==
    \/ teamCardClick
    \/ playersRequestResolves
    \/ playersRequestRejects
    \/ closePlayersBtnClick

Next == NextLoading \/ NextTeamList \/ NextRoster

\* the application
Spec == Init /\ [][Next]_vars

\* the application while no roster is opened or closed
SpecTeams == Init /\ [][NextLoading \/ NextTeamList]_vars

\* the application while the team list is not searched, switched or cleared
SpecRoster == Init /\ [][NextLoading \/ NextRoster]_vars

\* choosing a country and loading or refreshing its teams, every teams
\* request succeeding
SpecReload ==
    Init /\ [][\/ loadInitialDataResolved
               \/ loadInitialDataRejected
               \/ countrySelectChange
               \/ loadTeamsBtnClick
               \/ refreshTeamsBtnClick
               \/ teamsRequestResolves]_vars

(* ------------------------- the filter on its own ----------------------- *)

\* the team lists a teams-by-country response may carry
TeamLists == SeqsUpTo({Betis, Sevilla, Roma}, MaxListLen)

\* the application right after its first loadTeams('Spain') has resolved,
\* for every list the response may carry
InitFilter ==
    \E L \in TeamLists :
        /\ teams = L
        /\ filteredTeams = L
        /\ currentCountry = "Spain"
        /\ currentView = "grid"
        /\ searchTerm = <<>>
        /\ currentPlayers = <<>>
        /\ currentTeam = NullTeam
        /\ countryOptions = SortCountries(getCountries)
        /\ countryValue = "Spain"
        /\ loadTeamsBtnDisabled = FALSE
        /\ teamsContainer = RenderedTeams(L, "grid")
        /\ teamsCount = Len(L)
        /\ totalTeams = Len(L)
        /\ countryTitle = "Spain"
        /\ viewButtons = [grid |-> TRUE, list |-> FALSE]
        /\ teamInfo = FALSE
        /\ playersSection = FALSE
        /\ emptyPlayers = FALSE
        /\ loadingOverlay = FALSE
        /\ pendingCountries = FALSE
        /\ pendingTeams = <<>>
        /\ pendingPlayers = <<>>
        /\ lastOp = Op("loadTeamsResolved", "Spain")
        /\ notified = <<"success">>

\* searching and switching the view of a loaded list
SpecFilter == InitFilter /\ [][teamSearchInput \/ gridViewBtnClick \/ listViewBtnClick]_vars

(* ------------------------------- claims -------------------------------- *)

\* the view the specification describes: name, league or stadium location
\* contains the term, case-insensitively
LocationView(ts, term) ==
    IF term = <<>> THEN ts
    ELSE SelectSeq(ts, LAMBDA team :
            \/ Includes(ToLowerCase(team.strTeam), ToLowerCase(term))
            \/ (Truthy(team.strLeague)
                  /\ Includes(ToLowerCase(team.strLeague), ToLowerCase(term)))
            \/ (Truthy(team.strStadiumLocation)
                  /\ Includes(ToLowerCase(team.strStadiumLocation),
                              ToLowerCase(term))))

\* C1: in every reachable state filteredTeams is the order-preserving
\* subsequence of teams whose name, league or stadium location contains
\* searchTerm case-insensitively, and is teams when searchTerm is empty.
C1_FilteredIsLocationView == filteredTeams = LocationView(teams, searchTerm)

\* C2: a completed loadTeams (resolved or rejected) leaves searchTerm empty,
\* currentPlayers empty, currentTeam null and the players section hidden.
C2_LoadTeamsResetsFilterAndRoster ==
    lastOp.op \in {"loadTeamsResolved", "loadTeamsRejected"} =>
        /\ searchTerm = <<>>
        /\ currentPlayers = <<>>
        /\ currentTeam = NullTeam
        /\ ~playersSection

\* C3: when the teams request fails, loadTeams ends with teams empty, exactly
\* one error notification issued and the loading indicator hidden.
C3_RejectedLoadEmptiesTeams ==
    lastOp.op = "loadTeamsRejected" =>
        /\ teams = <<>>
        /\ notified = <<"error">>
        /\ ~loadingOverlay

\* C4: when the players request fails, loadPlayers ends with currentPlayers
\* empty, an error notification issued and the loading indicator hidden.
C4_RejectedLoadEmptiesRoster ==
    lastOp.op = "loadPlayersRejected" =>
        /\ currentPlayers = <<>>
        /\ notified = <<"error">>
        /\ ~loadingOverlay

\* C5: when a teams request has just resolved, teams, filteredTeams and the
\* rendered team list are those of that response, whichever call was issued
\* last; with nothing left in flight this is the response that resolved last.
C5_LastResolvedWins ==
    lastOp.op = "loadTeamsResolved" =>
        /\ teams = getTeamsByCountry(lastOp.arg)
        /\ filteredTeams = getTeamsByCountry(lastOp.arg)
        /\ teamsContainer = RenderedTeams(getTeamsByCountry(lastOp.arg), currentView)

\* C5 witness: both overlapping calls are done and the one that resolved last
\* is not the one issued last (currentCountry is the country issued last).
C5_Witness ==
    /\ lastOp.op = "loadTeamsResolved"
    /\ pendingTeams = <<>>
    /\ lastOp.arg # currentCountry
    /\ currentCountry # ""
    /\ teams = getTeamsByCountry(lastOp.arg)
    /\ teams # getTeamsByCountry(currentCountry)

\* C6 as stated: currentPlayers is non-empty only if currentTeam is set, and
\* every step that empties one of them empties the other.
C6_ClearedTogether ==
    /\ [](currentPlayers # <<>> => currentTeam # NullTeam)
    /\ [][/\ (currentPlayers # <<>> /\ currentPlayers' = <<>>)
               => currentTeam' = NullTeam
          /\ (currentTeam # NullTeam /\ currentTeam' = NullTeam)
               => currentPlayers' = <<>>]_vars

\* C6 amended: currentPlayers is non-empty only if currentTeam is set; every
\* step that sets currentTeam to null empties currentPlayers; a step that
\* empties currentPlayers sets currentTeam to null unless it is a resolved
\* loadPlayers, which stores an empty roster and sets currentTeam.
C6_RosterImpliesTeam ==
    /\ [](currentPlayers # <<>> => currentTeam # NullTeam)
    /\ [][/\ (currentPlayers # <<>> /\ currentPlayers' = <<>>)
               => \/ currentTeam' = NullTeam
                  \/ (lastOp'.op = "loadPlayersResolved" /\ currentTeam' # NullTeam)
          /\ (currentTeam # NullTeam /\ currentTeam' = NullTeam)
               => currentPlayers' = <<>>]_vars

\* C6 witness: with a roster on screen, a resolved loadPlayers has stored an
\* empty roster for the team it set.
C6_Witness ==
    /\ lastOp.op = "loadPlayersResolved"
    /\ currentPlayers = <<>>
    /\ currentTeam # NullTeam
    /\ playersSection

\* C7: switchView with filteredTeams empty changes no field of TeamManager
\* and nothing of the rendered view.
C7_SwitchViewNoopWhenEmpty ==
    [][(lastOp'.op = "switchView" /\ filteredTeams = <<>>)
          => UNCHANGED <<tmVars, teamsContainer, viewButtons>>]_vars

\* C8: while a request has not resolved the loading indicator is visible.
C8_LoadingWhilePending ==
    (pendingCountries \/ pendingTeams # <<>> \/ pendingPlayers # <<>>)
        => loadingOverlay

\* C9: after a resolved loadPlayers the roster is open (players section
\* visible, currentTeam set), empty roster or not; after hidePlayers it is
\* closed (players section hidden, currentTeam null).
C9_RosterOpenAfterLoad ==
    /\ lastOp.op = "loadPlayersResolved"
          => (playersSection /\ currentTeam # NullTeam)
    /\ lastOp.op = "hidePlayers"
          => (~playersSection /\ currentTeam = NullTeam)

\* C10: after loadPlayers resolved with an empty or absent player array,
\* currentPlayers is empty, the empty-state indicator is shown and no error
\* notification was issued.
C10_EmptyRosterIsNotAFailure ==
    (lastOp.op = "loadPlayersResolved" /\ getPlayersByTeam(lastOp.arg) = <<>>) =>
        /\ currentPlayers = <<>>
        /\ emptyPlayers
        /\ \A k \in DOMAIN notified : notified[k] # "error"

\* C10 witness: the roster request of Sevilla, whose body has player null,
\* has resolved.
C10_Witness ==
    /\ lastOp.op = "loadPlayersResolved"
    /\ lastOp.arg = Sevilla.idTeam
    /\ PlayersBody(lastOp.arg).player = NullList
    /\ currentPlayers = <<>>
    /\ emptyPlayers

\* C11: hidePlayers is unconditional and idempotent: every run of it ends
\* with currentPlayers empty, currentTeam null and the players section
\* hidden, and a run right after another run of it changes nothing.
C11_HidePlayersIdempotent ==
    [][lastOp'.op = "hidePlayers" =>
          /\ currentPlayers' = <<>>
          /\ currentTeam' = NullTeam
          /\ ~playersSection'
          /\ ~teamInfo'
          /\ ~emptyPlayers'
          /\ (lastOp.op = "hidePlayers" => UNCHANGED progVars)]_vars

\* C11 witness: hidePlayers has run twice in a row, started while a team was
\* set whose roster request is still to resolve again.
C11_Witness ==
    /\ lastOp = Op("hidePlayers", "again")
    /\ currentPlayers = <<>>
    /\ currentTeam = NullTeam
    /\ ~playersSection
    /\ pendingPlayers # <<>>

\* C12: filtering is idempotent: for every team list and every search text,
\* filtering the filtered list again with the same text gives the same list;
\* a filterTeams run leaves teams and the requests in flight as they are,
\* and a run right after a run with the same text changes nothing.
C12_FilterIdempotent ==
    [][lastOp'.op = "filterTeams" =>
          /\ FilteredBy(FilteredBy(teams, searchTerm'), searchTerm')
                = FilteredBy(teams, searchTerm')
          /\ FilteredBy(filteredTeams', searchTerm') = filteredTeams'
          /\ teams' = teams
          /\ UNCHANGED pendingVars
          /\ (lastOp'.arg = "again" => UNCHANGED progVars)]_vars

\* C12 witness: filterTeams has run twice in a row with a text that keeps
\* some of the loaded teams and drops others.
C12_Witness ==
    /\ lastOp = Op("filterTeams", "again")
    /\ searchTerm # <<>>
    /\ filteredTeams # <<>>
    /\ filteredTeams # teams

\* C13: whenever no teams request is in flight and teams is not empty,
\* teams is the list the API returned for currentCountry, the country in
\* the title.
C13_TeamsAreOfCurrentCountry ==
    (pendingTeams = <<>> /\ teams # <<>>) =>
        /\ countryTitle = currentCountry
        /\ teams = getTeamsByCountry(currentCountry)

\* C14: whenever a non-empty team list is rendered, the view button marked
\* active is the mode the list is rendered in, which is currentView.
C14_ActiveButtonIsRenderedMode ==
    teamsContainer.cards # <<>> =>
        /\ teamsContainer.viewType = currentView
        /\ viewButtons = [grid |-> teamsContainer.viewType = "grid",
                          list |-> teamsContainer.viewType = "list"]

====
